---- MODULE Spec2Model ----
(***************************************************************************)
(* A model of gz_vendor's vendor-package generator                         *)
(* (create_gz_vendor_pkg/create_vendor_package.py).                        *)
(*                                                                         *)
(* Strings the code inspects character by character (package names,       *)
(* version strings) are sequences of one-character strings, so that the   *)
(* regular expressions and str.replace of the code are computed, not      *)
(* assumed.                                                                *)
(***************************************************************************)
EXTENDS Integers, Sequences, FiniteSets, TLC

VARIABLES
    input_package_xml,  \* the input package.xml: what parse_package_string makes of it
    fs_package_xml,     \* <output_dir>/package.xml: <<>> when absent, else <<file>>
    fs_cmake,           \* <output_dir>/CMakeLists.txt: <<>> when absent, else <<file>>
    pc,                 \* position of the running entry point
    entry,              \* "main" or "generate": the entry point that is running
    package,            \* <<Package>>: the parsed input (filter_dependencies mutates it)
    existing_package,   \* <<>> for None, else <<prior descriptor>>
    output_dir,         \* whether an output directory is given
    params,             \* extra_params: {"version_suffix": ...}
    xml_params,         \* <<mapping>> the manifest template is rendered with
    cmake_params,       \* <<mapping>> the build-recipe template is rendered with
    output_package_xml, \* <<rendered manifest>>
    output_cmake,       \* <<rendered build recipe>>
    effects,            \* the writes and prints of the current run, in order
    error,              \* the exception that ended the run, or None
    runs,               \* finished runs over the same input and output directory
    fn_pc,              \* position of the single-function harness
    fn_in,              \* its input string
    fn_out,             \* its result
    collection,         \* batch driver: the repositories, each with its clone and its output directory
    batch_output_dir,   \* batch driver: args.output_dir
    batch_pc,           \* batch driver: position
    batch_i,            \* batch driver: index of the repository the loop is at
    batch_fs,           \* batch driver: the files of each repository's output directory
    batch_log,          \* batch driver: outcome of each call of create_vendor_package.main
    batch_error         \* batch driver: the exception that left its main, or None

pipeline_vars == <<input_package_xml, fs_package_xml, fs_cmake, pc, entry, package,
                   existing_package, output_dir, params, xml_params, cmake_params,
                   output_package_xml, output_cmake, effects, error, runs>>

fn_vars == <<fn_pc, fn_in, fn_out>>

batch_vars == <<collection, batch_output_dir, batch_pc, batch_i, batch_fs, batch_log,
                batch_error>>

vars == <<pipeline_vars, fn_vars, batch_vars>>

None == "None"

---------------------------------------------------------------------------
(* Characters and the names the code lists.                                *)

Lower == {"a","b","c","d","e","f","g","h","i","j","k","l","m",
          "n","o","p","q","r","s","t","u","v","w","x","y","z"}

Digit == {"0","1","2","3","4","5","6","7","8","9"}

\* [-_a-z] of remove_version's pattern
NameChar == Lower \cup {"-", "_"}

GZ_LIBRARIES == {
    <<"g","z","-","c","m","a","k","e">>,
    <<"g","z","-","c","o","m","m","o","n">>,
    <<"g","z","-","f","u","e","l","_","t","o","o","l","s">>,
    <<"g","z","-","g","u","i">>,
    <<"g","z","-","l","a","u","n","c","h">>,
    <<"g","z","-","m","a","t","h">>,
    <<"g","z","-","m","s","g","s">>,
    <<"g","z","-","p","h","y","s","i","c","s">>,
    <<"g","z","-","p","l","u","g","i","n">>,
    <<"g","z","-","r","e","n","d","e","r","i","n","g">>,
    <<"g","z","-","s","e","n","s","o","r","s">>,
    <<"g","z","-","s","i","m">>,
    <<"g","z","-","t","o","o","l","s">>,
    <<"g","z","-","t","r","a","n","s","p","o","r","t">>,
    <<"g","z","-","u","t","i","l","s">>,
    <<"s","d","f","o","r","m","a","t">> }

n_dartsim == <<"d","a","r","t","s","i","m">>
n_DART == <<"D","A","R","T">>
n_libogre_next_dev == <<"l","i","b","o","g","r","e","-","n","e","x","t","-","2",".","3","-","d","e","v">>
n_libogre_next == <<"l","i","b","o","g","r","e","-","n","e","x","t","-","2",".","3">>
n_spdlog == <<"s","p","d","l","o","g">>
n_gz_dartsim_vendor == <<"g","z","_","d","a","r","t","s","i","m","_","v","e","n","d","o","r">>
n_gz_ogre_next_vendor == <<"g","z","_","o","g","r","e","_","n","e","x","t","_","v","e","n","d","o","r">>
n_spdlog_vendor == <<"s","p","d","l","o","g","_","v","e","n","d","o","r">>

\* The dict as a function from its keys.
EXTRA_VENDORED_PKGS ==
    (n_dartsim :> n_gz_dartsim_vendor) @@
    (n_DART :> n_gz_dartsim_vendor) @@
    (n_libogre_next_dev :> n_gz_ogre_next_vendor) @@
    (n_libogre_next :> n_gz_ogre_next_vendor) @@
    (n_spdlog :> n_spdlog_vendor)

n_python3_distutils == <<"p","y","t","h","o","n","3","-","d","i","s","t","u","t","i","l","s">>

DEPENDENCY_DISALLOW_LIST == { n_python3_distutils }

DEPENDENCY_TYPES == <<"build_depends", "buildtool_depends", "build_export_depends",
                      "buildtool_export_depends", "exec_depends", "test_depends",
                      "doc_depends">>

---------------------------------------------------------------------------
(* Pure helpers.                                                           *)

\* The longest prefix of s whose characters are all in S: what a greedy
\* character-class star matches at the start of s.
RECURSIVE MatchStar(_, _)
MatchStar(s, S) ==
    IF s = <<>> \/ Head(s) \notin S THEN <<>>
    ELSE <<Head(s)>> \o MatchStar(Tail(s), S)

Drop(s, n) == SubSeq(s, n + 1, Len(s))

\* re.match(r"([-_a-z]*)(\d*)", pkg_name): both groups may be empty, so the
\* match object exists for every string.
NameVersionMatch(pkg_name) ==
    LET g1 == MatchStar(pkg_name, NameChar)
        g2 == MatchStar(Drop(pkg_name, Len(g1)), Digit)
    IN [matched |-> TRUE, group1 |-> g1, group2 |-> g2]

\* remove_version with the underscore left out of the character class.
remove_version_pair_no_underscore(pkg_name) ==
    LET g1 == MatchStar(pkg_name, Lower \cup {"-"})
        g2 == MatchStar(Drop(pkg_name, Len(g1)), Digit)
    IN [raised |-> None, base |-> g1, version |-> g2]

\* remove_version(pkg_name, return_version=True): the (base, digits) pair, or
\* the RuntimeError raised when there is no match object.
remove_version_pair(pkg_name) ==
    LET m == NameVersionMatch(pkg_name)
    IN IF ~m.matched
       THEN [raised |-> "RuntimeError", base |-> <<>>, version |-> <<>>]
       ELSE [raised |-> None, base |-> m.group1, version |-> m.group2]

\* remove_version(pkg_name): the base alone (the code's callers never catch the
\* RuntimeError; it cannot be raised, see NameVersionMatch).
remove_version(pkg_name) == remove_version_pair(pkg_name).base

\* str.replace('-', '_')
RECURSIVE ReplaceHyphens(_)
ReplaceHyphens(s) ==
    IF s = <<>> THEN <<>>
    ELSE <<IF Head(s) = "-" THEN "_" ELSE Head(s)>> \o ReplaceHyphens(Tail(s))

create_vendor_name(pkg_name) ==
    ReplaceHyphens(pkg_name) \o <<"_","v","e","n","d","o","r">>


n_gz_cmake == <<"g","z","-","c","m","a","k","e">>
n_gz_tools == <<"g","z","-","t","o","o","l","s">>
n_gz_rendering == <<"g","z","-","r","e","n","d","e","r","i","n","g">>
n_gz_math == <<"g","z","-","m","a","t","h">>
n_gz_sim == <<"g","z","-","s","i","m">>
n_gz_transport == <<"g","z","-","t","r","a","n","s","p","o","r","t">>
n_sdformat == <<"s","d","f","o","r","m","a","t">>
n_gz_fuel_tools_hyphen == <<"g","z","-","f","u","e","l","-","t","o","o","l","s">>
n_gz_fuel_tools_underscore == <<"g","z","-","f","u","e","l","_","t","o","o","l","s">>

DigitChars == <<"0","1","2","3","4","5","6","7","8","9">>

DigitVal(c) == (CHOOSE i \in 1..10 : DigitChars[i] = c) - 1

\* int(s) for a string of decimal digits; int("") raises ValueError.
RECURSIVE IntOfDigits(_)
IntOfDigits(s) ==
    IF s = <<>> THEN 0
    ELSE 10 * IntOfDigits(SubSeq(s, 1, Len(s) - 1)) + DigitVal(s[Len(s)])

int(s) ==
    IF s = <<>> THEN [raised |-> "ValueError", value |-> 0]
    ELSE [raised |-> None, value |-> IntOfDigits(s)]

\* re.match(r"^(\d+)\.(\d+)\.(\d+)$", version): three non-empty digit runs
\* separated by dots; "$" matches at the end of the string and also just
\* before a newline that ends it.
VersionMatch(version) ==
    LET g1 == MatchStar(version, Digit)
        r1 == Drop(version, Len(g1))
        g2 == IF r1 # <<>> /\ Head(r1) = "." THEN MatchStar(Tail(r1), Digit) ELSE <<>>
        r2 == IF r1 # <<>> THEN Drop(Tail(r1), Len(g2)) ELSE <<>>
        g3 == IF r2 # <<>> /\ Head(r2) = "." THEN MatchStar(Tail(r2), Digit) ELSE <<>>
        r3 == IF r2 # <<>> THEN Drop(Tail(r2), Len(g3)) ELSE <<"?">>
    IN [matched |-> /\ g1 # <<>> /\ g2 # <<>> /\ g3 # <<>>
                    /\ r3 \in {<<>>, <<"\n">>},
        groups |-> <<g1, g2, g3>>]

split_version(version) ==
    LET m == VersionMatch(version)
    IN IF ~m.matched
       THEN [raised |-> "ValueError", major |-> 0, minor |-> 0, patch |-> 0]
       ELSE [raised |-> None,
             major |-> IntOfDigits(m.groups[1]),
             minor |-> IntOfDigits(m.groups[2]),
             patch |-> IntOfDigits(m.groups[3])]

---------------------------------------------------------------------------
(* Vendor policy table.                                                    *)

pkg_has_extra_cmake(pkg_name_no_version) ==
    pkg_name_no_version \notin {n_gz_tools, n_gz_cmake}

pkg_has_dsv(pkg_name_no_version) ==
    pkg_name_no_version \notin {n_gz_tools, n_gz_cmake}

\* "and" short-circuits: int() runs only for gz-cmake.
pkg_has_patches(pkg_name_no_version, pkg_version) ==
    IF pkg_name_no_version = n_gz_cmake
    THEN IF int(pkg_version).raised # None
         THEN [raised |-> "ValueError", value |-> FALSE]
         ELSE IF int(pkg_version).value < 4
              THEN [raised |-> None, value |-> TRUE]
              ELSE [raised |-> None, value |-> pkg_name_no_version \in {n_gz_rendering}]
    ELSE [raised |-> None, value |-> pkg_name_no_version \in {n_gz_rendering}]

pkg_has_swig(pkg_name_no_version) == pkg_name_no_version \in {n_gz_math}

pkg_has_pybind11(pkg_name_no_version) ==
    pkg_name_no_version \in {n_gz_math, n_sdformat, n_gz_transport, n_gz_sim}

pkg_has_docs(pkg_name_no_version) == pkg_name_no_version \notin {n_sdformat}

cmake_pkg_name_identity(pkg_name_no_version) == pkg_name_no_version

cmake_pkg_name(pkg_name_no_version) ==
    IF pkg_name_no_version = n_gz_fuel_tools_hyphen
    THEN n_gz_fuel_tools_underscore
    ELSE pkg_name_no_version

github_pkg_name(pkg_name_no_version) ==
    IF pkg_name_no_version = n_gz_fuel_tools_underscore
    THEN n_gz_fuel_tools_hyphen
    ELSE pkg_name_no_version

\* is_gz_cmake4(name) of build_docs_deprecated
is_gz_cmake4(name) ==
    LET nv == remove_version_pair(name)
    IN IF nv.base = n_gz_cmake
       THEN IF int(nv.version).raised # None
            THEN [raised |-> "ValueError", value |-> FALSE]
            ELSE [raised |-> None, value |-> int(nv.version).value >= 4]
       ELSE [raised |-> None, value |-> FALSE]

\* The loop over package.build_depends: the first dependency that is
\* gz-cmake >= 4 returns True, a raise ends the loop.
RECURSIVE AnyGzCmake4(_)
AnyGzCmake4(deps) ==
    IF deps = <<>> THEN [raised |-> None, value |-> FALSE]
    ELSE LET r == is_gz_cmake4(Head(deps).name)
         IN IF r.raised # None \/ r.value THEN r ELSE AnyGzCmake4(Tail(deps))

build_docs_deprecated(pkg) ==
    LET self == is_gz_cmake4(pkg.name)
    IN IF self.raised # None \/ self.value THEN self
       ELSE AnyGzCmake4(pkg.build_depends)

---------------------------------------------------------------------------
(* Dependency classification and rewriting.                                *)

\* filter_impl
RECURSIVE filter_impl(_)
filter_impl(deps) ==
    IF deps = <<>> THEN <<>>
    ELSE (IF Head(deps).name \notin DEPENDENCY_DISALLOW_LIST
          THEN <<Head(deps)>> ELSE <<>>) \o filter_impl(Tail(deps))

IsDepType(f) == \E i \in 1..Len(DEPENDENCY_TYPES) : DEPENDENCY_TYPES[i] = f

\* filter_dependencies over the four kinds the classification separates only.
filter_dependencies_four_kinds(pkg) ==
    [f \in DOMAIN pkg |->
        IF f \in {"build_depends", "exec_depends", "test_depends", "doc_depends"}
        THEN filter_impl(pkg[f]) ELSE pkg[f]]

filter_dependencies(pkg) ==
    [f \in DOMAIN pkg |-> IF IsDepType(f) THEN filter_impl(pkg[f]) ELSE pkg[f]]

is_gz_library(dep) ==
    IF dep.name \in DOMAIN EXTRA_VENDORED_PKGS THEN TRUE
    ELSE remove_version(dep.name) \in GZ_LIBRARIES

\* vendorize_gz_dependency without the EXTRA_VENDORED_PKGS branch.
vendorize_gz_dependency_regular(dep) ==
    [dep EXCEPT !.name = create_vendor_name(remove_version(dep.name))]

\* The dependency after the in-place rename.
vendorize_gz_dependency(dep) ==
    IF dep.name \in DOMAIN EXTRA_VENDORED_PKGS
    THEN [dep EXCEPT !.name = EXTRA_VENDORED_PKGS[dep.name]]
    ELSE [dep EXCEPT !.name = create_vendor_name(remove_version(dep.name))]

RECURSIVE separate_gz_deps(_)
separate_gz_deps(deps) ==
    IF deps = <<>> THEN [gz_deps |-> <<>>, non_gz_deps |-> <<>>]
    ELSE LET rest == separate_gz_deps(Tail(deps))
         IN IF is_gz_library(Head(deps))
            THEN [gz_deps |-> <<Head(deps)>> \o rest.gz_deps,
                  non_gz_deps |-> rest.non_gz_deps]
            ELSE [gz_deps |-> rest.gz_deps,
                  non_gz_deps |-> <<Head(deps)>> \o rest.non_gz_deps]

\* "item not in unique_items" compares Dependency objects: equal when every
\* attribute (name and version constraint) is equal.
RECURSIVE StableUniqueFrom(_, _)
StableUniqueFrom(unique_items, items) ==
    IF items = <<>> THEN unique_items
    ELSE IF \E i \in 1..Len(unique_items) : unique_items[i] = Head(items)
         THEN StableUniqueFrom(unique_items, Tail(items))
         ELSE StableUniqueFrom(Append(unique_items, Head(items)), Tail(items))

stable_unique(items) == StableUniqueFrom(<<>>, items)

RECURSIVE VendorizeAll(_)
VendorizeAll(deps) ==
    IF deps = <<>> THEN <<>>
    ELSE <<vendorize_gz_dependency(Head(deps))>> \o VendorizeAll(Tail(deps))

\* The separation done on src_pkg_xml itself, without the copy: the caller's
\* package is the returned one.
separate_and_vendorize_gz_deps_no_copy(src_pkg_xml) ==
    LET b == separate_gz_deps(src_pkg_xml.build_depends)
        e == separate_gz_deps(src_pkg_xml.exec_depends)
        t == separate_gz_deps(src_pkg_xml.test_depends)
        d == separate_gz_deps(src_pkg_xml.doc_depends)
        gz_deps == stable_unique(b.gz_deps \o e.gz_deps \o t.gz_deps \o d.gz_deps)
        vendor_pkg_xml == [src_pkg_xml EXCEPT !.build_depends = b.non_gz_deps,
                                              !.exec_depends = e.non_gz_deps,
                                              !.test_depends = t.non_gz_deps,
                                              !.doc_depends = d.non_gz_deps]
    IN [gz_deps |-> VendorizeAll(gz_deps),
        pkg |-> vendor_pkg_xml,
        src |-> vendor_pkg_xml]

\* Returns (gz_deps, vendor_pkg_xml); src is the caller's package after the
\* call. The lists are reassigned and the dependencies renamed on
\* vendor_pkg_xml, a deep copy (line 220), which shares no object with
\* src_pkg_xml.
separate_and_vendorize_gz_deps(src_pkg_xml) ==
    LET b == separate_gz_deps(src_pkg_xml.build_depends)
        e == separate_gz_deps(src_pkg_xml.exec_depends)
        t == separate_gz_deps(src_pkg_xml.test_depends)
        d == separate_gz_deps(src_pkg_xml.doc_depends)
        gz_deps == stable_unique(b.gz_deps \o e.gz_deps \o t.gz_deps \o d.gz_deps)
        vendor_pkg_xml == [src_pkg_xml EXCEPT !.build_depends = b.non_gz_deps,
                                              !.exec_depends = e.non_gz_deps,
                                              !.test_depends = t.non_gz_deps,
                                              !.doc_depends = d.non_gz_deps]
    IN [gz_deps |-> VendorizeAll(gz_deps),
        pkg |-> vendor_pkg_xml,
        src |-> src_pkg_xml]

---------------------------------------------------------------------------
(* Parameter assembly and rendering.                                       *)

v_default == <<"0",".","0",".","1">>

\* template.render(params) for package.xml.jinja: the manifest carries the
\* vendor package's name and version.
RenderPackageXml(p) ==
    [parsable |-> TRUE, name |-> p.vendor_name, version |-> p.vendor_pkg_version]

\* template.render(params) for CMakeLists.txt.jinja.
RenderCMakeLists(p) ==
    [name |-> p.vendor_name, version |-> p.version, cmake_args |-> p.cmake_args]

\* parse_package(existing_package_path) on a file that parses.
ParseExisting(file) == [name |-> file.name, version |-> file.version]

\* vendor_pkg_version reset to the default on every generation.
vendor_pkg_version_reset(existing) == v_default

\* params["vendor_pkg_version"]
vendor_pkg_version(existing) ==
    IF existing # <<>> THEN existing[1].version ELSE v_default

\* The params of create_vendor_package_xml just before template.render.
XmlParams(src_pkg_xml, existing, extra_params) ==
    LET sv == separate_and_vendorize_gz_deps(src_pkg_xml)
    IN extra_params @@
       [gz_vendor_deps |-> sv.gz_deps,
        pkg |-> sv.pkg,
        vendor_name |-> create_vendor_name(remove_version(sv.pkg.name)),
        vendor_pkg_version |-> vendor_pkg_version(existing)]

a_build_docs_off == "-DBUILD_DOCS:BOOL=OFF"
a_skip_pybind11 == "-DSKIP_PYBIND11:BOOL=ON"
a_skip_swig == "-DSKIP_SWIG:BOOL=ON"

\* The first exception create_cmake_file raises while assembling its params,
\* in the order of its statements, or None.
CmakeRaised(src_pkg_xml) ==
    LET nv == remove_version_pair(src_pkg_xml.name)
    IN IF nv.raised # None THEN nv.raised
       ELSE IF pkg_has_patches(nv.base, nv.version).raised # None THEN "ValueError"
       ELSE IF split_version(src_pkg_xml.version).raised # None THEN "ValueError"
       ELSE IF pkg_has_docs(nv.base) /\ build_docs_deprecated(src_pkg_xml).raised # None
            THEN "ValueError"
       ELSE None

cmake_args(src_pkg_xml, pkg_name_no_version) ==
    (IF pkg_has_docs(pkg_name_no_version) /\ ~build_docs_deprecated(src_pkg_xml).value
     THEN <<a_build_docs_off>> ELSE <<>>)
    \o (IF pkg_has_pybind11(pkg_name_no_version) THEN <<a_skip_pybind11>> ELSE <<>>)
    \o (IF pkg_has_swig(pkg_name_no_version) THEN <<a_skip_swig>> ELSE <<>>)

\* create_cmake_file handing the template the package as it received it,
\* vendor-family dependencies included.
CmakeParams_source_pkg(src_pkg_xml, extra_params) ==
    LET sv == separate_and_vendorize_gz_deps(src_pkg_xml)
        nv == remove_version_pair(sv.pkg.name)
        sp == split_version(sv.pkg.version)
    IN extra_params @@
       [gz_vendor_deps |-> sv.gz_deps,
        pkg |-> src_pkg_xml,
        github_pkg_name |-> github_pkg_name(nv.base),
        vendor_name |-> create_vendor_name(nv.base),
        cmake_pkg_name |-> cmake_pkg_name(nv.base),
        vendor_has_extra_cmake |-> pkg_has_extra_cmake(nv.base),
        vendor_has_dsv |-> pkg_has_dsv(nv.base),
        has_patches |-> pkg_has_patches(nv.base, nv.version).value,
        version |-> [major |-> sp.major, minor |-> sp.minor, patch |-> sp.patch],
        cmake_args |-> cmake_args(src_pkg_xml, nv.base)]

\* The params of create_cmake_file just before template.render (when nothing
\* raised).
CmakeParams(src_pkg_xml, extra_params) ==
    LET sv == separate_and_vendorize_gz_deps(src_pkg_xml)
        nv == remove_version_pair(sv.pkg.name)
        sp == split_version(sv.pkg.version)
    IN extra_params @@
       [gz_vendor_deps |-> sv.gz_deps,
        pkg |-> sv.pkg,
        github_pkg_name |-> github_pkg_name(nv.base),
        vendor_name |-> create_vendor_name(nv.base),
        cmake_pkg_name |-> cmake_pkg_name(nv.base),
        vendor_has_extra_cmake |-> pkg_has_extra_cmake(nv.base),
        vendor_has_dsv |-> pkg_has_dsv(nv.base),
        has_patches |-> pkg_has_patches(nv.base, nv.version).value,
        version |-> [major |-> sp.major, minor |-> sp.minor, patch |-> sp.patch],
        cmake_args |-> cmake_args(src_pkg_xml, nv.base)]

---------------------------------------------------------------------------
(* Inputs.                                                                 *)

MaxDeps == 2    \* dependency declarations of an enumerated input package
MaxRuns == 2    \* runs over the same output directory
MaxLen == 3     \* length of an enumerated input string

n_gz_transport13 == n_gz_transport \o <<"1","3">>
n_gz_transport12 == n_gz_transport \o <<"1","2">>
n_gz_cmake3 == n_gz_cmake \o <<"3">>
n_gz_cmake4 == n_gz_cmake \o <<"4">>
n_gz_sim9 == n_gz_sim \o <<"9">>
n_gz_math8 == n_gz_math \o <<"8">>
n_cmake == <<"c","m","a","k","e">>
v_9_0_0 == <<"9",".","0",".","0">>
v_8_0 == <<"8",".","0">>
v_2_3_1 == <<"2",".","3",".","1">>

\* A Dependency: its name and its version constraint (None when it has none).
Dep(name, version_gte) == [name |-> name, version_gte |-> version_gte]

Decl(kind, dep) == [kind |-> kind, dep |-> dep]

RECURSIVE DepsOfKind(_, _)
DepsOfKind(decls, kind) ==
    IF decls = <<>> THEN <<>>
    ELSE (IF Head(decls).kind = kind THEN <<Head(decls).dep>> ELSE <<>>)
         \o DepsOfKind(Tail(decls), kind)

\* The Package parse_package_string returns for a package.xml with these
\* dependency declarations, in document order.
Package(name, version, decls) ==
    [name |-> name, version |-> version,
     build_depends |-> DepsOfKind(decls, "build_depends"),
     buildtool_depends |-> DepsOfKind(decls, "buildtool_depends"),
     build_export_depends |-> DepsOfKind(decls, "build_export_depends"),
     buildtool_export_depends |-> DepsOfKind(decls, "buildtool_export_depends"),
     exec_depends |-> DepsOfKind(decls, "exec_depends"),
     test_depends |-> DepsOfKind(decls, "test_depends"),
     doc_depends |-> DepsOfKind(decls, "doc_depends")]

Parsed(pkg) == [exists |-> TRUE, parsable |-> TRUE, pkg |-> pkg]

Unparsable == [exists |-> TRUE, parsable |-> FALSE, pkg |-> Package(<<>>, <<>>, <<>>)]

\* No file at the path given as input_package_xml.
Missing == [exists |-> FALSE, parsable |-> FALSE, pkg |-> Package(<<>>, <<>>, <<>>)]

\* Input files of the main entry point: the packages of the documented
\* examples, packages on which assembling the build recipe raises, and a file
\* that does not parse.
SampleInputs == {
    Parsed(Package(n_gz_sim9, v_9_0_0,
                   << Decl("build_depends", Dep(n_gz_transport13, None)),
                      Decl("test_depends", Dep(n_python3_distutils, None)) >>)),
    Parsed(Package(n_gz_cmake, v_9_0_0,
                   << Decl("buildtool_depends", Dep(n_cmake, None)) >>)),
    Parsed(Package(n_gz_math8, v_8_0,
                   << Decl("build_depends", Dep(n_gz_cmake4, None)) >>)),
    Parsed(Package(n_gz_cmake4, v_9_0_0, <<>>)),
    Parsed(Package(n_sdformat, v_9_0_0,
                   << Decl("build_depends", Dep(n_gz_cmake, None)),
                      Decl("exec_depends", Dep(n_dartsim, None)) >>)),
    Unparsable,
    Missing }

DepPool == { Dep(n_gz_transport13, None), Dep(n_gz_transport13, "13.1"),
             Dep(n_gz_transport12, None), Dep(n_dartsim, None), Dep(n_DART, None),
             Dep(n_python3_distutils, None), Dep(n_cmake, None) }

KindIndex(kind) == CHOOSE i \in 1..Len(DEPENDENCY_TYPES) : DEPENDENCY_TYPES[i] = kind

DeclPool == { Decl(DEPENDENCY_TYPES[i], d) : i \in 1..Len(DEPENDENCY_TYPES), d \in DepPool }

\* Declaration sequences grouped by kind: the order of two declarations of
\* different kinds does not change the parsed Package.
DeclSeqs ==
    UNION { { ds \in [1..n -> DeclPool] :
                \A i \in 1..(n - 1) : KindIndex(ds[i].kind) <= KindIndex(ds[i + 1].kind) }
            : n \in 0..MaxDeps }

GenInputs == { Parsed(Package(n_gz_sim9, v_9_0_0, ds)) : ds \in DeclSeqs }

Alphabet == {"a", "-", "_", "7", "A", "."}

NameInputs ==
    UNION { [1..n -> Alphabet] : n \in 0..MaxLen }
    \cup DOMAIN EXTRA_VENDORED_PKGS
    \cup GZ_LIBRARIES
    \cup { n_gz_transport13, n_gz_cmake3, n_gz_sim9, n_python3_distutils }
    \cup { n_gz_cmake4, n_gz_fuel_tools_hyphen, n_gz_fuel_tools_underscore }

PriorFiles == { <<>>,
                <<[parsable |-> FALSE, name |-> <<>>, version |-> <<>>]>>,
                <<[parsable |-> TRUE, name |-> <<>>, version |-> v_default]>>,
                <<[parsable |-> TRUE, name |-> <<>>, version |-> v_2_3_1]>> }

Suffixes == {"", "-pre1"}

---------------------------------------------------------------------------
(* The entry points.                                                       *)

Idle ==
    /\ pc = "idle" /\ entry = None
    /\ package = <<>> /\ existing_package = <<>> /\ output_dir = FALSE
    /\ params = [version_suffix |-> ""]
    /\ xml_params = <<>> /\ cmake_params = <<>>
    /\ output_package_xml = <<>> /\ output_cmake = <<>>
    /\ effects = <<>> /\ error = None

HarnessOff == fn_pc = "off" /\ fn_in = <<>> /\ fn_out = <<>>

BatchOff ==
    /\ collection = <<>> /\ batch_output_dir = None
    /\ batch_pc = "off" /\ batch_i = 0
    /\ batch_fs = <<>> /\ batch_log = <<>> /\ batch_error = None

Init ==
    /\ input_package_xml \in SampleInputs
    /\ fs_package_xml \in PriorFiles
    /\ fs_cmake = <<>>
    /\ runs = 0
    /\ Idle
    /\ HarnessOff
    /\ BatchOff

Raise(e) ==
    /\ error' = e
    /\ pc' = "failed"

\* main, lines 353-378: the arguments and the input package.xml. main runs on
\* its own or called by the batch driver. argparse.FileType opens the input
\* while the arguments are parsed: a missing file ends in parser.error, which
\* raises SystemExit.
MainParseInput ==
    /\ pc = "idle" /\ runs < MaxRuns
    /\ batch_pc \in {"off", "in_main"}
    /\ entry' = "main"
    /\ IF ~input_package_xml.exists
       THEN /\ Raise("SystemExit")
            /\ UNCHANGED <<package, params, output_dir>>
       ELSE IF ~input_package_xml.parsable
       THEN /\ Raise("InvalidPackage")
            /\ UNCHANGED <<package, params, output_dir>>
       ELSE /\ package' = <<input_package_xml.pkg>>
            /\ \E suffix \in Suffixes : params' = [version_suffix |-> suffix]
            /\ output_dir' = TRUE
            /\ pc' = "read_existing"
            /\ UNCHANGED error
    /\ UNCHANGED <<input_package_xml, fs_package_xml, fs_cmake, existing_package,
                   xml_params, cmake_params, output_package_xml, output_cmake,
                   effects, runs, fn_vars, batch_vars>>

\* main, lines 380-385: parse_package raises IOError when the file does not
\* exist and InvalidPackage when it does not parse; only InvalidPackage is
\* caught, and it is raised again.
MainReadExisting ==
    /\ pc = "read_existing"
    /\ IF fs_package_xml = <<>>
       THEN Raise("IOError") /\ UNCHANGED existing_package
       ELSE IF ~fs_package_xml[1].parsable
       THEN Raise("InvalidPackage") /\ UNCHANGED existing_package
       ELSE /\ existing_package' = <<ParseExisting(fs_package_xml[1])>>
            /\ pc' = "filter"
            /\ UNCHANGED error
    /\ UNCHANGED <<input_package_xml, fs_package_xml, fs_cmake, entry, package,
                   output_dir, params, xml_params, cmake_params, output_package_xml,
                   output_cmake, effects, runs, fn_vars, batch_vars>>

\* A caller other than main calls generate_vendor_package_files.
GenerateCall ==
    /\ pc = "idle" /\ runs < MaxRuns
    /\ input_package_xml.parsable
    /\ entry' = "generate"
    /\ package' = <<input_package_xml.pkg>>
    /\ \E e \in {<<>>} \cup (IF fs_package_xml # <<>> /\ fs_package_xml[1].parsable
                             THEN {<<ParseExisting(fs_package_xml[1])>>} ELSE {}) :
          existing_package' = e
    /\ output_dir' \in BOOLEAN
    /\ \E suffix \in Suffixes : params' = [version_suffix |-> suffix]
    /\ pc' = "filter"
    /\ UNCHANGED <<input_package_xml, fs_package_xml, fs_cmake, xml_params,
                   cmake_params, output_package_xml, output_cmake, effects, error,
                   runs, fn_vars, batch_vars>>

\* generate_vendor_package_files, line 312.
FilterDependencies ==
    /\ pc = "filter"
    /\ package' = <<filter_dependencies(package[1])>>
    /\ pc' = "create_xml"
    /\ UNCHANGED <<input_package_xml, fs_package_xml, fs_cmake, entry,
                   existing_package, output_dir, params, xml_params, cmake_params,
                   output_package_xml, output_cmake, effects, error, runs, fn_vars, batch_vars>>

\* create_vendor_package_xml followed at once by the write of package.xml.
CreateVendorPackageXml_write_early ==
    /\ pc = "create_xml"
    /\ \E template_ok \in BOOLEAN :
        IF ~template_ok
        THEN /\ Raise("TemplateError")
             /\ UNCHANGED <<package, xml_params, output_package_xml, fs_package_xml,
                            effects>>
        ELSE /\ package' = <<separate_and_vendorize_gz_deps(package[1]).src>>
             /\ xml_params' = <<XmlParams(package[1], existing_package, params)>>
             /\ output_package_xml' = <<RenderPackageXml(xml_params'[1])>>
             /\ IF output_dir
                THEN /\ fs_package_xml' = output_package_xml'
                     /\ effects' = Append(effects, "write package.xml")
                ELSE /\ effects' = Append(effects, "print package.xml")
                     /\ UNCHANGED fs_package_xml
             /\ pc' = "create_cmake"
             /\ UNCHANGED error
    /\ UNCHANGED <<input_package_xml, fs_cmake, entry,
                   existing_package, output_dir, params, cmake_params, output_cmake,
                   runs, fn_vars, batch_vars>>

\* generate_vendor_package_files, lines 313-315: create_vendor_package_xml.
\* Looking up or rendering the template may fail. The package passed in is,
\* after the call, what separate_and_vendorize_gz_deps left of it.
CreateVendorPackageXml ==
    /\ pc = "create_xml"
    /\ \E template_ok \in BOOLEAN :
        IF ~template_ok
        THEN Raise("TemplateError") /\ UNCHANGED <<package, xml_params, output_package_xml>>
        ELSE /\ package' = <<separate_and_vendorize_gz_deps(package[1]).src>>
             /\ xml_params' = <<XmlParams(package[1], existing_package, params)>>
             /\ output_package_xml' = <<RenderPackageXml(xml_params'[1])>>
             /\ pc' = "create_cmake"
             /\ UNCHANGED error
    /\ UNCHANGED <<input_package_xml, fs_package_xml, fs_cmake, entry,
                   existing_package, output_dir, params, cmake_params, output_cmake,
                   effects, runs, fn_vars, batch_vars>>

\* generate_vendor_package_files, line 316: create_cmake_file.
CreateCmakeFile ==
    /\ pc = "create_cmake"
    /\ \E template_ok \in BOOLEAN :
        IF ~template_ok
        THEN Raise("TemplateError") /\ UNCHANGED <<package, cmake_params, output_cmake>>
        ELSE IF CmakeRaised(package[1]) # None
        THEN /\ Raise(CmakeRaised(package[1]))
             /\ package' = <<separate_and_vendorize_gz_deps(package[1]).src>>
             /\ UNCHANGED <<cmake_params, output_cmake>>
        ELSE /\ package' = <<separate_and_vendorize_gz_deps(package[1]).src>>
             /\ cmake_params' = <<CmakeParams(package[1], params)>>
             /\ output_cmake' = <<RenderCMakeLists(cmake_params'[1])>>
             /\ pc' = "write_xml"
             /\ UNCHANGED error
    /\ UNCHANGED <<input_package_xml, fs_package_xml, fs_cmake, entry,
                   existing_package, output_dir, params, xml_params,
                   output_package_xml, effects, runs, fn_vars, batch_vars>>

\* generate_vendor_package_files, lines 317-319 and 323.
WritePackageXml ==
    /\ pc = "write_xml"
    /\ IF output_dir
       THEN /\ fs_package_xml' = output_package_xml
            /\ effects' = Append(effects, "write package.xml")
       ELSE /\ effects' = Append(effects, "print package.xml")
            /\ UNCHANGED fs_package_xml
    /\ pc' = "write_cmake"
    /\ UNCHANGED <<input_package_xml, fs_cmake, entry, package, existing_package,
                   output_dir, params, xml_params, cmake_params, output_package_xml,
                   output_cmake, error, runs, fn_vars, batch_vars>>

\* generate_vendor_package_files, lines 320-321 and 324.
WriteCMakeLists ==
    /\ pc = "write_cmake"
    /\ IF output_dir
       THEN /\ fs_cmake' = output_cmake
            /\ effects' = Append(effects, "write CMakeLists.txt")
       ELSE /\ effects' = Append(effects, "print CMakeLists.txt")
            /\ UNCHANGED fs_cmake
    /\ pc' = "generated"
    /\ UNCHANGED <<input_package_xml, fs_package_xml, entry, package,
                   existing_package, output_dir, params, xml_params, cmake_params,
                   output_package_xml, output_cmake, error, runs, fn_vars, batch_vars>>

\* main, lines 389-413: the template files copied beside the artifacts.
MainCopyFiles ==
    /\ pc = "generated" /\ entry = "main"
    /\ effects' = Append(effects, "copy files")
    /\ pc' = "done"
    /\ UNCHANGED <<input_package_xml, fs_package_xml, fs_cmake, entry, package,
                   existing_package, output_dir, params, xml_params, cmake_params,
                   output_package_xml, output_cmake, error, runs, fn_vars, batch_vars>>

\* The entry point returns or its exception reaches the caller; the files stay.
Return ==
    /\ \/ pc \in {"done", "failed"}
       \/ pc = "generated" /\ entry = "generate"
    /\ runs' = runs + 1
    /\ pc' = "idle" /\ entry' = None
    /\ package' = <<>> /\ existing_package' = <<>> /\ output_dir' = FALSE
    /\ params' = [version_suffix |-> ""]
    /\ xml_params' = <<>> /\ cmake_params' = <<>>
    /\ output_package_xml' = <<>> /\ output_cmake' = <<>>
    /\ effects' = <<>> /\ error' = None
    /\ UNCHANGED <<input_package_xml, fs_package_xml, fs_cmake, fn_vars, batch_vars>>

Next ==
    \/ MainParseInput
    \/ MainReadExisting
    \/ GenerateCall
    \/ FilterDependencies
    \/ CreateVendorPackageXml
    \/ CreateCmakeFile
    \/ WritePackageXml
    \/ WriteCMakeLists
    \/ MainCopyFiles
    \/ Return

Spec == Init /\ [][Next]_vars

---------------------------------------------------------------------------
(* generate_vendor_package_files called once on an enumerated package.     *)

InitGenerate ==
    /\ input_package_xml \in GenInputs
    /\ fs_package_xml = <<>> /\ fs_cmake = <<>>
    /\ runs = 0
    /\ pc = "filter" /\ entry = "generate"
    /\ package = <<input_package_xml.pkg>>
    /\ existing_package = <<[name |-> <<>>, version |-> v_2_3_1]>>
    /\ output_dir = TRUE
    /\ params = [version_suffix |-> "-pre1"]
    /\ xml_params = <<>> /\ cmake_params = <<>>
    /\ output_package_xml = <<>> /\ output_cmake = <<>>
    /\ effects = <<>> /\ error = None
    /\ HarnessOff
    /\ BatchOff

NextGenerate ==
    \/ FilterDependencies
    \/ CreateVendorPackageXml
    \/ CreateCmakeFile
    \/ WritePackageXml
    \/ WriteCMakeLists

SpecGenerate == InitGenerate /\ [][NextGenerate]_vars

---------------------------------------------------------------------------
(* Single functions applied to enumerated strings.                         *)

InitName ==
    /\ input_package_xml = Unparsable
    /\ fs_package_xml = <<>> /\ fs_cmake = <<>>
    /\ runs = 0
    /\ Idle
    /\ fn_pc = "input"
    /\ fn_in \in NameInputs
    /\ fn_out = <<>>
    /\ BatchOff

\* remove_version(fn_in, return_version=True)
CallRemoveVersion ==
    /\ fn_pc = "input"
    /\ fn_out' = remove_version_pair(fn_in)
    /\ fn_pc' = "remove_version"
    /\ UNCHANGED <<fn_in, pipeline_vars, batch_vars>>

\* vendorize_gz_dependency(dep) on a dependency named fn_in
CallVendorize ==
    /\ fn_pc = "input"
    /\ fn_out' = vendorize_gz_dependency(Dep(fn_in, None))
    /\ fn_pc' = "vendorize"
    /\ UNCHANGED <<fn_in, pipeline_vars, batch_vars>>

\* remove_version(fn_in, return_version=True), then pkg_has_patches on the pair
CallPkgHasPatches ==
    /\ fn_pc = "input"
    /\ fn_out' = LET nv == remove_version_pair(fn_in)
                 IN IF nv.raised # None
                    THEN [raised |-> nv.raised, value |-> FALSE]
                    ELSE pkg_has_patches(nv.base, nv.version)
    /\ fn_pc' = "pkg_has_patches"
    /\ UNCHANGED <<fn_in, pipeline_vars, batch_vars>>

\* cmake_pkg_name and github_pkg_name of fn_in, and their two compositions
CallPkgNames ==
    /\ fn_pc = "input"
    /\ fn_out' = [cmake |-> cmake_pkg_name(fn_in),
                  github |-> github_pkg_name(fn_in),
                  github_of_cmake |-> github_pkg_name(cmake_pkg_name(fn_in)),
                  cmake_of_github |-> cmake_pkg_name(github_pkg_name(fn_in))]
    /\ fn_pc' = "pkg_names"
    /\ UNCHANGED <<fn_in, pipeline_vars, batch_vars>>

NextName ==
    \/ CallRemoveVersion
    \/ CallVendorize
    \/ CallPkgHasPatches
    \/ CallPkgNames

SpecName == InitName /\ [][NextName]_vars

---------------------------------------------------------------------------
(* split_version applied to enumerated version strings.                    *)

MaxVerLen == 6    \* length of an enumerated version string

VersionAlphabet == {"1", "0", ".", "\n"}

VersionInputs ==
    UNION { [1..n -> VersionAlphabet] : n \in 0..MaxVerLen }
    \cup { v_9_0_0, v_8_0, v_2_3_1, <<"1",".","2",".","3","a">>, <<"v","1",".","2",".","3">>,
           <<"1","2",".","0",".","3","4">> }

InitVersion ==
    /\ input_package_xml = Unparsable
    /\ fs_package_xml = <<>> /\ fs_cmake = <<>>
    /\ runs = 0
    /\ Idle
    /\ fn_pc = "input"
    /\ fn_in \in VersionInputs
    /\ fn_out = <<>>
    /\ BatchOff

\* split_version(fn_in)
CallSplitVersion ==
    /\ fn_pc = "input"
    /\ fn_out' = split_version(fn_in)
    /\ fn_pc' = "split_version"
    /\ UNCHANGED <<fn_in, pipeline_vars, batch_vars>>

NextVersion == CallSplitVersion

SpecVersion == InitVersion /\ [][NextVersion]_vars

---------------------------------------------------------------------------
(* build_docs_deprecated and create_cmake_file's cmake_args applied to     *)
(* enumerated packages.                                                    *)

MaxBuildDeps == 2    \* build dependencies of an enumerated package

PolicyNames == { n_gz_math8, n_gz_cmake, n_gz_cmake3, n_gz_cmake4, n_sdformat }

PolicyDepNames == { n_gz_cmake, n_gz_cmake3, n_gz_cmake4, n_cmake }

RECURSIVE BuildDecls(_)
BuildDecls(names) ==
    IF names = <<>> THEN <<>>
    ELSE <<Decl("build_depends", Dep(Head(names), None))>> \o BuildDecls(Tail(names))

PolicyPackages ==
    { Package(name, v_9_0_0, BuildDecls(deps)) :
        name \in PolicyNames,
        deps \in UNION { [1..n -> PolicyDepNames] : n \in 0..MaxBuildDeps } }

InitPolicy ==
    /\ input_package_xml = Unparsable
    /\ fs_package_xml = <<>> /\ fs_cmake = <<>>
    /\ runs = 0
    /\ Idle
    /\ fn_pc = "input"
    /\ fn_in \in PolicyPackages
    /\ fn_out = <<>>
    /\ BatchOff

\* build_docs_deprecated(fn_in)
CallBuildDocsDeprecated ==
    /\ fn_pc = "input"
    /\ fn_out' = build_docs_deprecated(fn_in)
    /\ fn_pc' = "build_docs_deprecated"
    /\ UNCHANGED <<fn_in, pipeline_vars, batch_vars>>

\* create_cmake_file(fn_in, {"version_suffix": ""}): what it raises, or the
\* cmake_args it hands to the template.
CallCreateCmakeFile ==
    /\ fn_pc = "input"
    /\ fn_out' = IF CmakeRaised(fn_in) # None
                 THEN [raised |-> CmakeRaised(fn_in), cmake_args |-> <<>>]
                 ELSE [raised |-> None,
                       cmake_args |-> CmakeParams(fn_in, [version_suffix |-> ""]).cmake_args]
    /\ fn_pc' = "create_cmake_file"
    /\ UNCHANGED <<fn_in, pipeline_vars, batch_vars>>

NextPolicy ==
    \/ CallBuildDocsDeprecated
    \/ CallCreateCmakeFile

SpecPolicy == InitPolicy /\ [][NextPolicy]_vars

---------------------------------------------------------------------------
(* The batch driver, gz_vendor_all_libs.main: create_vendor_package.main   *)
(* called once for each repository of the collection.                      *)

MaxRepos == 2    \* repositories of the collection

GoodInput ==
    Parsed(Package(n_gz_sim9, v_9_0_0,
                   << Decl("build_depends", Dep(n_gz_transport13, None)) >>))

PriorValid == <<[parsable |-> TRUE, name |-> <<>>, version |-> v_2_3_1]>>

PriorUnparsable == <<[parsable |-> FALSE, name |-> <<>>, version |-> <<>>]>>

\* A repository: the package.xml of its clone (clone does not check git's exit
\* status, so there may be none) and the package.xml of its output directory.
BatchRepos == {
    [input |-> GoodInput, prior |-> PriorValid],
    [input |-> Missing, prior |-> PriorValid],
    [input |-> Unparsable, prior |-> PriorValid],
    [input |-> GoodInput, prior |-> <<>>],
    [input |-> GoodInput, prior |-> PriorUnparsable],
    [input |-> Parsed(Package(n_gz_math8, v_8_0, <<>>)), prior |-> PriorValid] }

\* --output_dir: not given, given as "", given as a directory.
BatchOutputDirs == { None, "", "out" }

InitBatch ==
    /\ input_package_xml = Unparsable
    /\ fs_package_xml = <<>> /\ fs_cmake = <<>>
    /\ runs = 0
    /\ Idle
    /\ HarnessOff
    /\ collection \in UNION { [1..n -> BatchRepos] : n \in 0..MaxRepos }
    /\ batch_output_dir \in BatchOutputDirs
    /\ batch_pc = "loop" /\ batch_i = 1
    /\ batch_fs = [i \in 1..Len(collection) |->
                      [package_xml |-> collection[i].prior, cmake |-> <<>>]]
    /\ batch_log = <<>> /\ batch_error = None

\* Lines 54-56: args.output_dir is None when --output_dir is not given; None
\* differs from "", and Path(None) raises TypeError outside the try.
BatchPathTypeError ==
    /\ batch_pc = "loop" /\ batch_i <= Len(collection)
    /\ batch_output_dir = None
    /\ batch_error' = "TypeError"
    /\ batch_pc' = "exited"
    /\ UNCHANGED <<pipeline_vars, fn_vars, collection, batch_output_dir, batch_i,
                   batch_fs, batch_log>>

\* Lines 46-62: the next repository is cloned and create_vendor_package.main
\* is called on its package.xml and its own output directory.
BatchCallMain ==
    /\ batch_pc = "loop" /\ batch_i <= Len(collection)
    /\ batch_output_dir # None
    /\ pc = "idle"
    /\ input_package_xml' = collection[batch_i].input
    /\ fs_package_xml' = batch_fs[batch_i].package_xml
    /\ fs_cmake' = batch_fs[batch_i].cmake
    /\ batch_pc' = "in_main"
    /\ UNCHANGED <<pc, entry, package, existing_package, output_dir, params,
                   xml_params, cmake_params, output_package_xml, output_cmake,
                   effects, error, runs, fn_vars, collection, batch_output_dir,
                   batch_i, batch_fs, batch_log, batch_error>>

\* The call of main is over: its locals are gone, the files of the output
\* directory stay, and the loop goes to the next repository.
BatchNext(outcome) ==
    /\ batch_log' = Append(batch_log, outcome)
    /\ batch_fs' = [batch_fs EXCEPT
                      ![batch_i] = [package_xml |-> fs_package_xml, cmake |-> fs_cmake]]
    /\ batch_i' = batch_i + 1
    /\ batch_pc' = "loop"
    /\ pc' = "idle" /\ entry' = None
    /\ package' = <<>> /\ existing_package' = <<>> /\ output_dir' = FALSE
    /\ params' = [version_suffix |-> ""]
    /\ xml_params' = <<>> /\ cmake_params' = <<>>
    /\ output_package_xml' = <<>> /\ output_cmake' = <<>>
    /\ effects' = <<>> /\ error' = None
    /\ UNCHANGED <<input_package_xml, fs_package_xml, fs_cmake, runs, fn_vars,
                   collection, batch_output_dir, batch_error>>

\* Line 62: main returns.
BatchMainReturns ==
    /\ batch_pc = "in_main" /\ pc = "done"
    /\ BatchNext("ok")

\* Lines 63-66: except Exception prints the error and the loop goes on.
\* SystemExit is a BaseException and not an Exception.
BatchExcept ==
    /\ batch_pc = "in_main" /\ pc = "failed"
    /\ error # "SystemExit"
    /\ BatchNext(error)

\* SystemExit passes the except clause and leaves the loop and the driver.
BatchSystemExit ==
    /\ batch_pc = "in_main" /\ pc = "failed"
    /\ error = "SystemExit"
    /\ batch_error' = error
    /\ batch_pc' = "exited"
    /\ UNCHANGED <<pipeline_vars, fn_vars, collection, batch_output_dir, batch_i,
                   batch_fs, batch_log>>

\* Line 46: the collection is exhausted.
BatchLoopEnd ==
    /\ batch_pc = "loop" /\ batch_i > Len(collection)
    /\ batch_pc' = "done"
    /\ UNCHANGED <<pipeline_vars, fn_vars, collection, batch_output_dir, batch_i,
                   batch_fs, batch_log, batch_error>>

NextBatch ==
    \/ BatchPathTypeError
    \/ BatchCallMain
    \/ MainParseInput
    \/ MainReadExisting
    \/ FilterDependencies
    \/ CreateVendorPackageXml
    \/ CreateCmakeFile
    \/ WritePackageXml
    \/ WriteCMakeLists
    \/ MainCopyFiles
    \/ BatchMainReturns
    \/ BatchExcept
    \/ BatchSystemExit
    \/ BatchLoopEnd

SpecBatch == InitBatch /\ [][NextBatch]_vars

---------------------------------------------------------------------------
(* Properties.                                                             *)

Kinds == { DEPENDENCY_TYPES[i] : i \in 1..Len(DEPENDENCY_TYPES) }

Names(deps) == { deps[i].name : i \in 1..Len(deps) }

\* Both artifacts of the running call have been rendered.
BothRendered == xml_params # <<>> /\ cmake_params # <<>>

\* C1: every dependency of the input whose base name is in GZ_LIBRARIES, in
\* whichever of the seven kinds it is declared, is in gz_vendor_deps under its
\* vendor name and is no longer in the package's native list of that kind.
C1_EveryKindVendorized ==
    xml_params # <<>> =>
        \A kind \in Kinds :
            \A i \in 1..Len(input_package_xml.pkg[kind]) :
                LET dep == input_package_xml.pkg[kind][i]
                IN remove_version(dep.name) \in GZ_LIBRARIES =>
                      /\ vendorize_gz_dependency(dep).name
                            \in Names(xml_params[1].gz_vendor_deps)
                      /\ dep.name \notin Names(xml_params[1].pkg[kind])

\* The first entry of each name, in first-seen order.
RECURSIVE FirstByName(_, _)
FirstByName(kept, deps) ==
    IF deps = <<>> THEN kept
    ELSE IF Head(deps).name \in Names(kept)
         THEN FirstByName(kept, Tail(deps))
         ELSE FirstByName(Append(kept, Head(deps)), Tail(deps))

\* The vendor-family dependencies of the filtered input under their vendor
\* names, in the order build, exec, test, doc.
GatheredVendorDeps ==
    LET pkg == filter_dependencies(input_package_xml.pkg)
    IN VendorizeAll(separate_gz_deps(pkg.build_depends).gz_deps
                    \o separate_gz_deps(pkg.exec_depends).gz_deps
                    \o separate_gz_deps(pkg.test_depends).gz_deps
                    \o separate_gz_deps(pkg.doc_depends).gz_deps)

\* C2: gz_vendor_deps is deduplicated by name: no two entries carry the same
\* name, the first occurrence of a name wins, first-seen order is kept.
C2_UniqueByName ==
    xml_params # <<>> =>
        /\ \A i, j \in 1..Len(xml_params[1].gz_vendor_deps) :
              i # j => xml_params[1].gz_vendor_deps[i].name
                         # xml_params[1].gz_vendor_deps[j].name
        /\ xml_params[1].gz_vendor_deps = FirstByName(<<>>, GatheredVendorDeps)

\* The version the manifest of the running call must carry.
CarriedVersion ==
    IF existing_package = <<>> THEN v_default ELSE existing_package[1].version

\* C3: the manifest's version is the prior descriptor's version when one is
\* supplied and 0.0.1 when none is, and a run of main, which reads the prior
\* descriptor from the output directory, writes back the version it found
\* there: regenerating never changes the version on disk.
C3_VersionCarriedOver ==
    /\ [](xml_params # <<>> =>
            /\ xml_params[1].vendor_pkg_version = CarriedVersion
            /\ output_package_xml[1].version = CarriedVersion)
    /\ [][(entry = "main" /\ pc = "write_xml") =>
            fs_package_xml'[1].version = fs_package_xml[1].version]_vars

\* C3 witness: the second run of main on the same input has written the
\* manifest, and the version is still the prior descriptor's 2.3.1.
C3_Witness ==
    /\ entry = "main" /\ runs >= 1 /\ pc = "done"
    /\ existing_package[1].version = v_2_3_1
    /\ fs_package_xml[1].version = v_2_3_1
    /\ input_package_xml.pkg.version # v_2_3_1

\* C4: in main, an absent prior package.xml is a normal path; reading the
\* prior descriptor makes main fail only when the file exists and does not
\* parse.
C4_AbsentPriorIsNormal ==
    (/\ entry = "main" /\ pc = "failed"
     /\ input_package_xml.parsable
     /\ error \in {"IOError", "InvalidPackage"})
    => (fs_package_xml # <<>> /\ ~fs_package_xml[1].parsable)

\* The regular transform of a raw name.
RegularVendorName(name) == create_vendor_name(remove_version(name))

\* C5 as stated: every key of EXTRA_VENDORED_PKGS is renamed to its mapped
\* value, and that value is never the regular transform of the key.
C5_NeverRegularTransform ==
    (fn_pc = "vendorize" /\ fn_in \in DOMAIN EXTRA_VENDORED_PKGS) =>
        /\ fn_out.name = EXTRA_VENDORED_PKGS[fn_in]
        /\ fn_out.name # RegularVendorName(fn_in)

\* C5 amended: every key of EXTRA_VENDORED_PKGS is renamed to its mapped
\* value; the value differs from the regular transform of the key for every
\* key but spdlog, whose mapped value spdlog_vendor is the regular transform.
C5_MappedValue ==
    (fn_pc = "vendorize" /\ fn_in \in DOMAIN EXTRA_VENDORED_PKGS) =>
        /\ fn_out.name = EXTRA_VENDORED_PKGS[fn_in]
        /\ (fn_out.name = RegularVendorName(fn_in)) <=> (fn_in = n_spdlog)

\* C5 witness: dartsim has been renamed to gz_dartsim_vendor.
C5_Witness ==
    fn_pc = "vendorize" /\ fn_in = n_dartsim /\ fn_out.name = n_gz_dartsim_vendor

\* The names of every dependency a rendering parameter mapping carries.
ParamDepNames(p) ==
    Names(p.gz_vendor_deps) \cup UNION { Names(p.pkg[kind]) : kind \in Kinds }

\* C6: no dependency on DEPENDENCY_DISALLOW_LIST is in the parameters of
\* either rendered artifact, in any of the seven native lists or in
\* gz_vendor_deps.
C6_DisallowedNeverRendered ==
    /\ xml_params # <<>> =>
          ParamDepNames(xml_params[1]) \cap DEPENDENCY_DISALLOW_LIST = {}
    /\ cmake_params # <<>> =>
          ParamDepNames(cmake_params[1]) \cap DEPENDENCY_DISALLOW_LIST = {}

\* C6 witness: both artifacts are rendered from an input that declares a
\* disallowed dependency in a kind the classification does not touch and in
\* one it does.
C6_Witness ==
    /\ BothRendered
    /\ n_python3_distutils \in Names(input_package_xml.pkg.buildtool_export_depends)
    /\ n_python3_distutils \in Names(input_package_xml.pkg.test_depends)

\* C7: when assembling or rendering either artifact fails, nothing has been
\* written or printed and the output directory's package.xml is the one that
\* was read; whatever is written or printed, both artifacts had been rendered
\* before.
C7_AllOrNothing ==
    /\ pc = "failed" => effects = <<>>
    /\ effects # <<>> => output_package_xml # <<>> /\ output_cmake # <<>>
    /\ (pc = "failed" /\ entry = "main" /\ existing_package # <<>>) =>
          ParseExisting(fs_package_xml[1]) = existing_package[1]

\* C7 witness: the manifest was rendered, then the build recipe failed on the
\* package's version.
C7_Witness ==
    /\ pc = "failed" /\ error = "ValueError"
    /\ output_package_xml # <<>> /\ output_cmake = <<>>
    /\ output_dir

\* C8 as stated: the two templates are rendered with the identical mapping.
C8_IdenticalParams ==
    BothRendered => xml_params[1] = cmake_params[1]

XmlKeys == {"version_suffix", "gz_vendor_deps", "pkg", "vendor_name", "vendor_pkg_version"}

CmakeKeys == {"version_suffix", "gz_vendor_deps", "pkg", "vendor_name",
              "github_pkg_name", "cmake_pkg_name", "vendor_has_extra_cmake",
              "vendor_has_dsv", "has_patches", "version", "cmake_args"}

\* C8 amended: the two mappings agree on every key they share (version_suffix,
\* gz_vendor_deps, pkg, vendor_name); vendor_pkg_version is given to the
\* manifest template only, and the policy flags, the split version and
\* cmake_args to the build-recipe template only.
C8_SharedParamsEqual ==
    BothRendered =>
        /\ DOMAIN xml_params[1] = XmlKeys
        /\ DOMAIN cmake_params[1] = CmakeKeys
        /\ \A k \in XmlKeys \cap CmakeKeys : xml_params[1][k] = cmake_params[1][k]

\* C8 witness: both mappings are assembled for a package with a vendored and
\* a passthrough dependency.
C8_Witness ==
    /\ BothRendered
    /\ xml_params[1].gz_vendor_deps # <<>>
    /\ xml_params[1].pkg.build_depends # <<>>
    /\ params.version_suffix = "-pre1"

\* C9: remove_version raises RuntimeError for every name that does not start
\* with a lowercase letter, a hyphen or an underscore, and returns no empty
\* base for it.
C9_MalformedNameRaises ==
    (fn_pc = "remove_version" /\ (fn_in = <<>> \/ Head(fn_in) \notin NameChar)) =>
        fn_out.raised = "RuntimeError"

\* A non-empty run of [-_a-z] followed by a possibly empty run of digits.
WellFormed(s) ==
    \E k \in 1..Len(s) :
        /\ \A i \in 1..k : s[i] \in NameChar
        /\ \A i \in (k + 1)..Len(s) : s[i] \in Digit

\* C10: for a well-formed identifier, remove_version returns (base, digits)
\* with base + digits equal to the name, no digit in base and only digits in
\* digits.
C10_RoundTrip ==
    (fn_pc = "remove_version" /\ WellFormed(fn_in)) =>
        /\ fn_out.raised = None
        /\ fn_out.base \o fn_out.version = fn_in
        /\ \A i \in 1..Len(fn_out.base) : fn_out.base[i] \notin Digit
        /\ \A i \in 1..Len(fn_out.version) : fn_out.version[i] \in Digit

\* C10 witness: a well-formed name with an underscore and version digits has
\* been split.
C10_Witness ==
    /\ fn_pc = "remove_version" /\ WellFormed(fn_in)
    /\ fn_out.version # <<>> /\ "_" \in { fn_in[i] : i \in 1..Len(fn_in) }

\* s is digits "." digits "." digits with the dots at positions i and j, every
\* run non-empty and nothing before or after.
ThreeRunsAt(s, i, j) ==
    /\ 1 < i /\ i + 1 < j /\ j < Len(s)
    /\ s[i] = "." /\ s[j] = "."
    /\ \A k \in (1..Len(s)) \ {i, j} : s[k] \in Digit

\* C11: split_version accepts a string if and only if it is exactly three
\* dot-separated runs of decimal digits with nothing before or after, and then
\* returns the three integers; every other string raises ValueError.
C11_ExactlyThreeRuns ==
    fn_pc = "split_version" =>
        /\ (fn_out.raised = None) <=>
              (\E i, j \in 1..Len(fn_in) : ThreeRunsAt(fn_in, i, j))
        /\ fn_out.raised # None => fn_out.raised = "ValueError"
        /\ \A i, j \in 1..Len(fn_in) :
              ThreeRunsAt(fn_in, i, j) =>
                 /\ fn_out.major = IntOfDigits(SubSeq(fn_in, 1, i - 1))
                 /\ fn_out.minor = IntOfDigits(SubSeq(fn_in, i + 1, j - 1))
                 /\ fn_out.patch = IntOfDigits(SubSeq(fn_in, j + 1, Len(fn_in)))

\* The name has base gz-cmake and embeds a major version of at least 4.
IsGzCmakeAtLeast4(name) ==
    LET nv == remove_version_pair(name)
    IN /\ nv.base = n_gz_cmake
       /\ nv.version # <<>>
       /\ IntOfDigits(nv.version) >= 4

\* The package itself or one of its build dependencies is gz-cmake >= 4.
UsesGzCmakeAtLeast4(pkg) ==
    \/ IsGzCmakeAtLeast4(pkg.name)
    \/ \E i \in 1..Len(pkg.build_depends) : IsGzCmakeAtLeast4(pkg.build_depends[i].name)

\* C12: build_docs_deprecated returns a boolean for every package, true
\* exactly when the package or one of its build dependencies is gz-cmake with
\* an embedded major version of at least 4 (false for gz-cmake without version
\* digits); create_cmake_file puts -DBUILD_DOCS:BOOL=OFF in cmake_args exactly
\* when pkg_has_docs holds and build_docs_deprecated is false.
C12_DocsDeprecatedTotal ==
    /\ fn_pc = "build_docs_deprecated" =>
          /\ fn_out.raised = None
          /\ fn_out.value = UsesGzCmakeAtLeast4(fn_in)
    /\ (fn_pc = "create_cmake_file" /\ fn_out.raised = None) =>
          ((\E i \in 1..Len(fn_out.cmake_args) : fn_out.cmake_args[i] = a_build_docs_off)
           <=> (pkg_has_docs(remove_version(fn_in.name)) /\ ~UsesGzCmakeAtLeast4(fn_in)))

\* C13: pkg_has_patches returns a boolean without raising for every
\* (base name, version digits) pair remove_version returns, empty version
\* digits included: true exactly when the base is gz-rendering, or the base is
\* gz-cmake and the major version is below 4.
C13_HasPatchesTotal ==
    fn_pc = "pkg_has_patches" =>
        LET nv == remove_version_pair(fn_in)
        IN /\ fn_out.raised = None
           /\ fn_out.value = (\/ nv.base = n_gz_rendering
                              \/ /\ nv.base = n_gz_cmake
                                 /\ nv.version # <<>>
                                 /\ IntOfDigits(nv.version) < 4)

FuelTools == { n_gz_fuel_tools_hyphen, n_gz_fuel_tools_underscore }

\* C14: github_pkg_name is the inverse of cmake_pkg_name: for every name in
\* GZ_LIBRARIES and for both spellings of fuel-tools, each composition of the
\* two gives the name back, and each function is the identity on every name
\* other than the fuel-tools library.
C14_Inverse ==
    fn_pc = "pkg_names" =>
        /\ fn_in \in GZ_LIBRARIES \cup FuelTools =>
              /\ fn_out.github_of_cmake = fn_in
              /\ fn_out.cmake_of_github = fn_in
        /\ fn_in \notin FuelTools =>
              /\ fn_out.cmake = fn_in
              /\ fn_out.github = fn_in

\* C14 (amended): cmake_pkg_name sends both spellings of fuel-tools to
\* gz-fuel_tools and github_pkg_name sends both to gz-fuel-tools, so
\* github(cmake(n)) = n for every name but gz-fuel_tools and
\* cmake(github(n)) = n for every name but gz-fuel-tools; each function is the
\* identity on every other name.
C14_InverseOnOwnSpelling ==
    fn_pc = "pkg_names" =>
        /\ fn_in # n_gz_fuel_tools_underscore => fn_out.github_of_cmake = fn_in
        /\ fn_in # n_gz_fuel_tools_hyphen => fn_out.cmake_of_github = fn_in
        /\ fn_in \in FuelTools =>
              /\ fn_out.cmake = n_gz_fuel_tools_underscore
              /\ fn_out.github = n_gz_fuel_tools_hyphen
              /\ fn_out.github_of_cmake = n_gz_fuel_tools_hyphen
              /\ fn_out.cmake_of_github = n_gz_fuel_tools_underscore
        /\ fn_in \notin FuelTools =>
              /\ fn_out.cmake = fn_in
              /\ fn_out.github = fn_in

C14_Witness ==
    /\ fn_pc = "pkg_names"
    /\ fn_in = n_gz_fuel_tools_hyphen
    /\ fn_out.cmake = n_gz_fuel_tools_underscore
    /\ fn_out.github_of_cmake = fn_in

\* The exceptions that end create_vendor_package.main.
MainFailures == { "SystemExit", "InvalidPackage", "IOError", "ValueError", "TemplateError" }

\* C15: in the batch driver a failure of create_vendor_package.main on one
\* repository (missing or unparsable input, missing prior descriptor, invalid
\* version, render error) never stops the loop: the driver is never left with
\* such an exception, at the end every repository of the collection has been
\* processed, and the artifacts written for earlier repositories stay.
C15_FailureDoesNotStopLoop ==
    /\ batch_pc = "exited" => batch_error \notin MainFailures
    /\ batch_pc = "done" => Len(batch_log) = Len(collection)
    /\ \A j \in 1..Len(batch_log) :
          batch_log[j] = "ok" =>
              /\ batch_fs[j].package_xml # <<>>
              /\ batch_fs[j].package_xml[1].parsable
              /\ batch_fs[j].cmake # <<>>

\* C16: separate_and_vendorize_gz_deps leaves the package it is given
\* unchanged, so after either call of one generate_vendor_package_files the
\* package is still the filtered input, and the call made for the manifest and
\* the call made for the build recipe return equal vendor dependency lists and
\* equal passthrough packages.
C16_SourceUnchanged ==
    /\ (xml_params # <<>> \/ cmake_params # <<>>) =>
          package[1] = filter_dependencies(input_package_xml.pkg)
    /\ BothRendered =>
          /\ xml_params[1].gz_vendor_deps = cmake_params[1].gz_vendor_deps
          /\ xml_params[1].pkg = cmake_params[1].pkg

C16_Witness ==
    /\ BothRendered
    /\ xml_params[1].gz_vendor_deps # <<>>
    /\ xml_params[1].pkg # package[1]
    /\ \E i \in 1..Len(package[1].build_depends) :
          is_gz_library(package[1].build_depends[i])

====
